---- MODULE Spec2Model ----
(***************************************************************************)
(* Backlink Scoring Dashboard (src/app.py).                                *)
(*                                                                         *)
(* The Streamlit script is modelled as a state machine: a widget event     *)
(* (slider, keyword text input, file upload) triggers a rerun of the whole *)
(* script, whose statements are then executed in program order (pc).       *)
(*                                                                         *)
(* Numbers.  Slider values are integers in hundredths (30 stands for       *)
(* 0.30).  Intermediate values of calculate_score are exact rationals      *)
(* <<n, d>>, d > 0, in lowest terms.  Scores (the results of round(x, 1))  *)
(* are integers in tenths (81 stands for 8.1).  The code computes in       *)
(* binary floating point, where the direction in which a decimal tie       *)
(* (x.x5) is rounded depends on the representation error of the operand    *)
(* and on whether the value is a Python float or a numpy float64; round1   *)
(* therefore yields both neighbours at an exact decimal tie.               *)
(*                                                                         *)
(* Text.  A string is a tuple of one-character strings.  A spreadsheet     *)
(* cell is a tagged value: a string, a boolean or NaN (a blank cell).      *)
(***************************************************************************)
EXTENDS Integers, Sequences, FiniteSets, TLC

VARIABLES sliders, anchor_input, uploaded_file, pc, weights, anchor_keywords,
          df, raw_score, outcome, overall_score, total_links_submitted,
          top_links, domain_summary

vars == <<sliders, anchor_input, uploaded_file, pc, weights, anchor_keywords,
          df, raw_score, outcome, overall_score, total_links_submitted,
          top_links, domain_summary>>

----------------------------------------------------------------------------
(* Text *)

Uppers == <<"A", "E", "F", "G", "I", "L", "N", "R", "S", "T", "U", "X">>

Lowers == <<"a", "e", "f", "g", "i", "l", "n", "r", "s", "t", "u", "x">>

\* str.lower() on one character
LowerChar(c) ==
    IF \E k \in DOMAIN Uppers : Uppers[k] = c
    THEN Lowers[CHOOSE k \in DOMAIN Uppers : Uppers[k] = c]
    ELSE c

\* str.upper() on one character
UpperChar(c) ==
    IF \E k \in DOMAIN Lowers : Lowers[k] = c
    THEN Uppers[CHOOSE k \in DOMAIN Lowers : Lowers[k] = c]
    ELSE c

Lower(s) == [k \in DOMAIN s |-> LowerChar(s[k])]

Upper(s) == [k \in DOMAIN s |-> UpperChar(s[k])]

\* Python's  a in b  on strings
IsSubstr(a, b) ==
    \E k \in 0..(Len(b) - Len(a)) : SubSeq(b, k + 1, k + Len(a)) = a

IsSpace(c) == c = " "

RECURSIVE LStrip(_)
LStrip(s) == IF s # <<>> /\ IsSpace(Head(s)) THEN LStrip(Tail(s)) ELSE s

RECURSIVE RStrip(_)
RStrip(s) ==
    IF s # <<>> /\ IsSpace(s[Len(s)]) THEN RStrip(SubSeq(s, 1, Len(s) - 1)) ELSE s

\* str.strip()
Strip(s) == RStrip(LStrip(s))

\* str.split(sep): the pieces between separators, empty pieces kept
RECURSIVE SplitOn(_, _, _)
SplitOn(s, sep, cur) ==
    IF s = <<>> THEN <<cur>>
    ELSE IF Head(s) = sep THEN <<cur>> \o SplitOn(Tail(s), sep, <<>>)
    ELSE SplitOn(Tail(s), sep, Append(cur, Head(s)))

\* str.split(): the maximal runs of non-whitespace
RECURSIVE SplitWs(_, _)
SplitWs(s, cur) ==
    IF s = <<>> THEN (IF cur = <<>> THEN <<>> ELSE <<cur>>)
    ELSE IF IsSpace(Head(s))
         THEN (IF cur = <<>> THEN <<>> ELSE <<cur>>) \o SplitWs(Tail(s), <<>>)
         ELSE SplitWs(Tail(s), Append(cur, Head(s)))

\* Spreadsheet cells
StrCell(s) == [tag |-> "str", s |-> s]

BoolCell(b) == [tag |-> "bool", s |-> IF b THEN <<"T", "r", "u", "e">>
                                            ELSE <<"F", "a", "l", "s", "e">>]

NaNCell == [tag |-> "nan", s |-> <<"n", "a", "n">>]

\* str(x) / Series.astype(str): the textual form of a cell
Str(cell) == cell.s

----------------------------------------------------------------------------
(* Exact arithmetic *)

Abs(n) == IF n < 0 THEN -n ELSE n

RECURSIVE GCD(_, _)
GCD(a, b) == IF b = 0 THEN a ELSE GCD(b, a % b)

Rat(n, d) == LET g == GCD(Abs(n), d) IN <<n \div g, d \div g>>

RAdd(a, b) == Rat(a[1] * b[2] + b[1] * a[2], a[2] * b[2])

RMul(a, b) == Rat(a[1] * b[1], a[2] * b[2])

\* round(x, 1) of the rational x, in tenths; both neighbours at a decimal tie
round1(x) ==
    LET f == (10 * x[1]) \div x[2]
        r == 10 * x[1] - f * x[2]
    IN  IF 2 * r < x[2] THEN {f}
        ELSE IF 2 * r > x[2] THEN {f + 1}
        ELSE {f, f + 1}

\* a score in tenths as a rational
Tenths(t) == Rat(t, 10)

----------------------------------------------------------------------------
(* Scoring functions *)

\* An integer as a rational
Int2Rat(n) == <<n, 1>>

\* Float division n / d; the denominator 0 marks a ZeroDivisionError
Div(n, d) == IF d = 0 THEN <<0, 0>> ELSE Rat(n, d)

normalize(value, min_value, max_value) ==
    RMul(Int2Rat(10), Div(value - min_value, max_value - min_value))

title_relevance_score(title, keyword) ==
    IF title.tag # "str" THEN Int2Rat(0)
    ELSE LET title_lower == Lower(title.s)
             keyword_lower == Lower(keyword)
             parts == SplitWs(keyword_lower, <<>>)
         IN  IF IsSubstr(keyword_lower, title_lower) THEN Int2Rat(1)
             ELSE IF \E k \in DOMAIN parts : IsSubstr(parts[k], title_lower)
                  THEN Rat(1, 2)
                  ELSE Int2Rat(-1)

TRUE_STR == <<"T", "R", "U", "E">>

\* Mutant: the Sponsored flag is not tested
is_excluded_no_sponsored(row) ==
    \/ Upper(row.nofollow) = TRUE_STR
    \/ row.lost_date # <<>>

\* The exclusion test of calculate_score
is_excluded(row) ==
    \/ Upper(row.nofollow) = TRUE_STR
    \/ Upper(row.sponsored) = TRUE_STR
    \/ row.lost_date # <<>>

anchor_bonus(row, keywords) ==
    Cardinality({k \in DOMAIN keywords :
                    IsSubstr(Lower(keywords[k]), Lower(Str(row.anchor)))})

\* Mutant: 'nav' is not recognised
link_type_adjustment_no_nav(row) ==
    IF row.link_type = "text" THEN 2
    ELSE IF row.link_type = "image" THEN -2
    ELSE 0

link_type_adjustment(row) ==
    IF row.link_type = "text" THEN 2
    ELSE IF row.link_type \in {"image", "nav"} THEN -2
    ELSE 0

title_bonus(row, keywords) ==
    IF keywords # <<>>
    THEN title_relevance_score(row.title, keywords[1])
    ELSE Int2Rat(0)

\* The value of  score  before  round(score, 1)
unrounded_score(row, keywords, w) ==
    LET normalized_dr == normalize(row.dr, 0, 100)
        normalized_ur == normalize(row.ur, 0, 100)
        normalized_rd == normalize(row.rd, 0, 5000)
        normalized_traffic == normalize(row.traffic, 0, 1000000)
    IN  RAdd(RAdd(RAdd(RAdd(RAdd(RAdd(
            RMul(normalized_dr, w.DR),
            RMul(normalized_ur, w.UR)),
            RMul(normalized_rd, w.RD)),
            RMul(normalized_traffic, w.Traffic)),
            RMul(Int2Rat(anchor_bonus(row, keywords)), Rat(10, 100))),
            RMul(Int2Rat(link_type_adjustment(row)), Rat(5, 100))),
            title_bonus(row, keywords))

\* The values calculate_score can return, in tenths
calculate_score(row, keywords, w) ==
    IF is_excluded(row) THEN {0}
    ELSE round1(unrounded_score(row, keywords, w))

\* Mutant: no fallback for a zero total
normalized_weights_no_fallback(s) ==
    LET total == s.DR + s.UR + s.RD + s.Traffic
    IN  [DR |-> Div(s.DR, total), UR |-> Div(s.UR, total),
         RD |-> Div(s.RD, total), Traffic |-> Div(s.Traffic, total)]

\* Lines 102-112: the weights computed from the four sliders
normalized_weights(s) ==
    LET total == s.DR + s.UR + s.RD + s.Traffic
    IN  IF total = 0
        THEN [DR |-> Rat(25, 100), UR |-> Rat(25, 100),
              RD |-> Rat(25, 100), Traffic |-> Rat(25, 100)]
        ELSE [DR |-> Div(s.DR, total), UR |-> Div(s.UR, total),
              RD |-> Div(s.RD, total), Traffic |-> Div(s.Traffic, total)]

\* Line 124: the keyword list parsed from the text input
parse_keywords(input) ==
    IF input # <<>>
    THEN LET pieces == SplitOn(input, ",", <<>>)
         IN  [k \in DOMAIN pieces |-> Strip(pieces[k])]
    ELSE <<>>

\* urlparse(x).netloc: what follows "scheme://" up to the next "/", "?" or "#"
IsSchemeChar(c) == c \notin {":", "/", "?", "#", " "}

RECURSIVE TakeNetloc(_)
TakeNetloc(s) ==
    IF s = <<>> \/ Head(s) \in {"/", "?", "#"} THEN <<>>
    ELSE <<Head(s)>> \o TakeNetloc(Tail(s))

AfterScheme(url) ==
    IF \E k \in DOMAIN url :
          /\ url[k] = ":"
          /\ k > 1
          /\ \A j \in 1..(k - 1) : IsSchemeChar(url[j])
    THEN LET k == CHOOSE k \in DOMAIN url :
                     url[k] = ":" /\ \A j \in 1..(k - 1) : url[j] # ":"
         IN  SubSeq(url, k + 1, Len(url))
    ELSE url

netloc(url) ==
    LET rest == AfterScheme(url)
    IN  IF Len(rest) >= 2 /\ rest[1] = "/" /\ rest[2] = "/"
        THEN TakeNetloc(SubSeq(rest, 3, Len(rest)))
        ELSE <<>>

----------------------------------------------------------------------------
(* The uploaded table *)

RequiredColumns ==
    {"Referring page title", "Referring page URL", "Domain rating", "UR",
     "Referring domains", "Page traffic", "Anchor", "Link Type", "Nofollow",
     "Sponsored", "Lost Date", "First Seen", "Last Seen"}

\* The columns clean_data indexes
CleanedColumns == {"Nofollow", "Sponsored", "Lost Date"}

NoFile == [columns |-> {}, rows |-> <<>>, present |-> FALSE]

File(columns, rows) == [columns |-> columns, rows |-> rows, present |-> TRUE]

\* clean_data applied to one row; idx is the row's index label in the frame
clean_row(r, idx) ==
    [idx |-> idx, title |-> r.title, url |-> r.url, dr |-> r.dr, ur |-> r.ur,
     rd |-> r.rd, traffic |-> r.traffic, anchor |-> r.anchor,
     link_type |-> r.link_type,
     nofollow |-> Strip(Str(r.nofollow)),
     sponsored |-> Strip(Str(r.sponsored)),
     lost_date |-> Strip(IF r.lost_date.tag = "nan" THEN <<>> ELSE Str(r.lost_date))]

\* clean_data: raises KeyError when one of the three columns is absent
clean_data_raises(file) == ~(CleanedColumns \subseteq file.columns)

clean_data(file) == [k \in DOMAIN file.rows |-> clean_row(file.rows[k], k - 1)]

----------------------------------------------------------------------------
(* Sorting, ranking, aggregation *)

\* All sequences that take one element of each set of a sequence of sets
RECURSIVE Choices(_)
Choices(sets) ==
    IF sets = <<>> THEN {<<>>}
    ELSE {<<x>> \o t : x \in Head(sets), t \in Choices(Tail(sets))}

Max(S) == CHOOSE x \in S : \A y \in S : y <= x

\* DataFrame.sort_values(ascending=False) with the default kind='quicksort':
\* every arrangement of the positions in S by non-increasing key; the order of
\* equal keys is not specified (only 'mergesort' and 'stable' are stable)
RECURSIVE DescOrders(_, _)
DescOrders(keys, S) ==
    IF S = {} THEN {<<>>}
    ELSE LET m == Max({keys[k] : k \in S})
         IN  UNION {{<<k>> \o t : t \in DescOrders(keys, S \ {k})} :
                      k \in {j \in S : keys[j] = m}}

sort_values(rows, keys) ==
    {[k \in DOMAIN o |-> rows[o[k]]] : o \in DescOrders(keys, DOMAIN rows)}

\* Mutant: the rank counts all earlier rows, not those of the same domain
cumcount_all(rows, k) == k - 1

\* groupby('Domain').cumcount() at position k of the frame
cumcount(rows, k) == Cardinality({j \in 1..(k - 1) : rows[j].Domain = rows[k].Domain})

\* row['Score'] if row['Rank'] == 0 else round(row['Score'] * 0.5, 1)
penalized(score, rank) ==
    IF rank = 0 THEN {score} ELSE round1(RMul(Tenths(score), Rat(5, 10)))

head(s, n) == SubSeq(s, 1, IF Len(s) < n THEN Len(s) ELSE n)

\* Mutant: rows with score 0 pass the filter
RECURSIVE positive_rows_or_zero(_)
positive_rows_or_zero(rows) ==
    IF rows = <<>> THEN <<>>
    ELSE (IF Head(rows).Score >= 0 THEN <<Head(rows)>> ELSE <<>>)
         \o positive_rows_or_zero(Tail(rows))

\* df[df['Score'] > 0]: the rows with a positive score, in frame order
RECURSIVE positive_rows(_)
positive_rows(rows) ==
    IF rows = <<>> THEN <<>>
    ELSE (IF Head(rows).Score > 0 THEN <<Head(rows)>> ELSE <<>>)
         \o positive_rows(Tail(rows))

\* The sum of the Score column over the positions in S
RECURSIVE SumScores(_, _)
SumScores(rows, S) ==
    IF S = {} THEN 0
    ELSE LET k == CHOOSE k \in S : TRUE
         IN  rows[k].Score + SumScores(rows, S \ {k})

TopN == 10

SummaryN == 10

\* Lines 153-155: the possible Top 10 tables
top_links_of(rows) ==
    LET pos == positive_rows(rows)
        sorted == sort_values(pos, [k \in DOMAIN pos |-> pos[k].Score])
    IN  {LET t == head(o, TopN)
         IN  [k \in DOMAIN t |->
                [Position |-> k, title |-> t[k].title, url |-> t[k].url,
                 Score |-> t[k].Score, idx |-> t[k].idx]] : o \in sorted}

RECURSIVE SetToSeq(_)
SetToSeq(S) ==
    IF S = {} THEN <<>>
    ELSE LET x == CHOOSE x \in S : TRUE IN <<x>> \o SetToSeq(S \ {x})

\* Mutant: link_count counts only the rows with a positive score
domain_summary_positive(rows) ==
    LET domains == {rows[k].Domain : k \in DOMAIN rows}
        group(d) == {k \in DOMAIN rows : rows[k].Domain = d}
        agg == SetToSeq({[Domain |-> d,
                          domain_score |-> SumScores(rows, group(d)),
                          link_count |-> Cardinality({k \in group(d) : rows[k].Score > 0})] :
                            d \in domains})
        sorted == sort_values(agg, [k \in DOMAIN agg |-> agg[k].domain_score])
    IN  {head(o, SummaryN) : o \in sorted}

\* Mutant: negative scores are left out of the sum
overall_score_positive(rows) ==
    round1(Tenths(SumScores(rows, {k \in DOMAIN rows : rows[k].Score > 0})))

\* Line 145: df['Score'].sum().round(1); a sum of tenths is no decimal tie
overall_score_of(rows) == round1(Tenths(SumScores(rows, DOMAIN rows)))

\* Lines 158-161: the possible domain summaries
domain_summary_of(rows) ==
    LET domains == {rows[k].Domain : k \in DOMAIN rows}
        group(d) == {k \in DOMAIN rows : rows[k].Domain = d}
        agg == SetToSeq({[Domain |-> d,
                          domain_score |-> SumScores(rows, group(d)),
                          link_count |-> Cardinality(group(d))] : d \in domains})
        sorted == sort_values(agg, [k \in DOMAIN agg |-> agg[k].domain_score])
    IN  {head(o, SummaryN) : o \in sorted}

----------------------------------------------------------------------------
(* Inputs *)

\* Longest batch built from all arrangements of the sample rows
MaxRows == 3

\* Rows beyond TopN in the long batches
Extra == 1

s_ai == <<"a", "i">>

s_x == <<"x">>

FALSE_CELL == StrCell(<<"F", "A", "L", "S", "E">>)

Hosts == <<"a", "b", "c", "d", "e", "f", "g", "h", "i", "j", "k", "l", "m", "n">>

Url(host, path) == <<"s", ":", "/", "/">> \o host \o <<"/">> \o path

Row(title, url, dr, ur, rd, traffic, anchor, link_type, nofollow, sponsored, lost_date) ==
    [title |-> title, url |-> url, dr |-> dr, ur |-> ur, rd |-> rd,
     traffic |-> traffic, anchor |-> anchor, link_type |-> link_type,
     nofollow |-> nofollow, sponsored |-> sponsored, lost_date |-> lost_date]

\* A row whose four metrics all normalize to pct / 10
PctRow(title, url, pct, anchor, link_type) ==
    Row(title, url, pct, pct, 50 * pct, 10000 * pct, anchor, link_type,
        FALSE_CELL, FALSE_CELL, NaNCell)

SampleRows ==
    << PctRow(StrCell(<<"a", "i", " ", "x">>), Url(<<"a">>, <<"1">>), 80, StrCell(s_ai), "other"),
       PctRow(StrCell(s_x), Url(<<"a">>, <<"2">>), 80, StrCell(s_x), "other"),
       PctRow(StrCell(<<"A", "i">>), Url(<<"a">>, <<"3">>), 60, NaNCell, "other"),
       PctRow(StrCell(s_x), Url(<<"b">>, <<"1">>), 0, StrCell(s_x), "other"),
       Row(StrCell(s_ai), Url(<<"b">>, <<"2">>), 100, 100, 5000, 1000000, StrCell(s_ai),
           "text", BoolCell(TRUE), BoolCell(FALSE), StrCell(<<" ">>)),
       Row(NaNCell, Url(<<"b">>, <<"3">>), 100, 0, 0, 0, StrCell(s_ai),
           "text", FALSE_CELL, FALSE_CELL, NaNCell) >>

RECURSIVE SeqsUpTo(_, _)
SeqsUpTo(S, n) ==
    IF n = 0 THEN {<<>>}
    ELSE LET shorter == SeqsUpTo(S, n - 1)
         IN  shorter \cup {Append(t, x) : t \in shorter, x \in S}

ShortBatches == SeqsUpTo({SampleRows[k] : k \in DOMAIN SampleRows}, MaxRows) \ {<<>>}

\* TopN + Extra rows: one domain each; all of one domain; three domains with ties
LongBatches ==
    { [k \in 1..(TopN + Extra) |->
         PctRow(StrCell(s_x), Url(<<Hosts[k]>>, <<"1">>), 10 * k, StrCell(s_x), "other")],
      [k \in 1..(TopN + Extra) |->
         PctRow(StrCell(s_x), Url(<<"a">>, <<Hosts[k]>>), 10 * k, StrCell(s_x), "other")],
      [k \in 1..(TopN + Extra) |->
         PctRow(StrCell(s_x), Url(<<Hosts[(k % 3) + 1]>>, <<Hosts[k]>>),
                10 * ((k % 6) + 1), StrCell(s_x), "other")] }

\* Rows that carry an exclusion flag in its various spellings; the last has a
\* URL without a scheme, whose netloc is empty
FlaggedRows ==
    { Row(StrCell(s_ai), Url(<<"a">>, <<"5">>), 80, 80, 4000, 800000, StrCell(s_ai), "text",
          StrCell(<<" ", "t", "r", "u", "e">>), FALSE_CELL, NaNCell),
      Row(StrCell(s_ai), Url(<<"a">>, <<"6">>), 80, 80, 4000, 800000, StrCell(s_ai), "text",
          FALSE_CELL, StrCell(<<"T", "r", "u", "e">>), NaNCell),
      Row(StrCell(s_ai), <<"a", "/", "7">>, 80, 80, 4000, 800000, StrCell(s_ai), "text",
          NaNCell, BoolCell(FALSE), StrCell(<<"1">>)) }

FlaggedBatches ==
    {<<x, y>> : x \in FlaggedRows \cup {SampleRows[2]}, y \in FlaggedRows}

Files ==
    {File(RequiredColumns, b) : b \in ShortBatches \cup LongBatches \cup FlaggedBatches}
    \cup {File(RequiredColumns \ {c}, <<SampleRows[1]>>) : c \in RequiredColumns}
    \cup {File(RequiredColumns \cup {"Notes"}, <<SampleRows[1]>>)}

DefaultSliders == [DR |-> 10, UR |-> 30, RD |-> 15, Traffic |-> 30]

SliderNames == {"DR", "UR", "RD", "Traffic"}

AnchorInputs == {<<>>, s_ai}

----------------------------------------------------------------------------
(* The script *)

Sliders(dr, ur, rd, traffic) == [DR |-> dr, UR |-> ur, RD |-> rd, Traffic |-> traffic]

SliderSettings ==
    {DefaultSliders, Sliders(0, 0, 0, 0), Sliders(100, 0, 0, 0)}

\* One run of the script, for every setting of the widgets: Streamlit reruns
\* the script from the top on every widget event and keeps nothing between runs
Init ==
    /\ sliders \in SliderSettings
    /\ anchor_input \in AnchorInputs
    /\ uploaded_file \in {NoFile} \cup Files
    /\ pc = "controls"
    /\ weights = normalized_weights(DefaultSliders)
    /\ anchor_keywords = <<>>
    /\ df = <<>>
    /\ raw_score = <<>>
    /\ outcome = "running"
    /\ overall_score = 0
    /\ total_links_submitted = 0
    /\ top_links = <<>>
    /\ domain_summary = <<>>

\* Lines 97-126: weights, keyword list; without a file the run ends here
Controls ==
    /\ pc = "controls"
    /\ weights' = normalized_weights(sliders)
    /\ anchor_keywords' = parse_keywords(anchor_input)
    /\ pc' = IF uploaded_file.present THEN "load" ELSE "done"
    /\ outcome' = IF uploaded_file.present THEN "running" ELSE "no_file"
    /\ UNCHANGED <<sliders, anchor_input, uploaded_file, df, raw_score,
                   overall_score, total_links_submitted, top_links, domain_summary>>

\* Lines 129-135 and 178-179: clean_data, then the required-columns check
Load ==
    /\ pc = "load"
    /\ IF clean_data_raises(uploaded_file)
       THEN /\ outcome' = "KeyError"
            /\ pc' = "done"
            /\ df' = df
       ELSE IF ~(RequiredColumns \subseteq uploaded_file.columns)
       THEN /\ outcome' = "missing_columns"
            /\ pc' = "done"
            /\ df' = df
       ELSE /\ outcome' = "running"
            /\ pc' = "score"
            /\ df' = clean_data(uploaded_file)
    /\ UNCHANGED <<sliders, anchor_input, uploaded_file, weights, anchor_keywords,
                   raw_score, overall_score, total_links_submitted, top_links,
                   domain_summary>>

\* Lines 136 and 139: the Score and Domain columns
Score ==
    /\ pc = "score"
    /\ \E sc \in Choices([k \in DOMAIN df |->
                            calculate_score(df[k], anchor_keywords, weights)]) :
          /\ df' = [k \in DOMAIN df |->
                      df[k] @@ [Score |-> sc[k], Domain |-> netloc(df[k].url)]]
          /\ raw_score' = sc
    /\ pc' = "sort"
    /\ UNCHANGED <<sliders, anchor_input, uploaded_file, weights, anchor_keywords,
                   outcome, overall_score, total_links_submitted, top_links,
                   domain_summary>>

\* Line 140
Sort ==
    /\ pc = "sort"
    /\ df' \in sort_values(df, [k \in DOMAIN df |-> df[k].Score])
    /\ pc' = "penalty"
    /\ UNCHANGED <<sliders, anchor_input, uploaded_file, weights, anchor_keywords,
                   raw_score, outcome, overall_score, total_links_submitted,
                   top_links, domain_summary>>

\* Lines 141-143
Penalty ==
    /\ pc = "penalty"
    /\ \E sc \in Choices([k \in DOMAIN df |->
                            penalized(df[k].Score, cumcount(df, k))]) :
          df' = [k \in DOMAIN df |-> [df[k] EXCEPT !.Score = sc[k]]]
    /\ pc' = "aggregate"
    /\ UNCHANGED <<sliders, anchor_input, uploaded_file, weights, anchor_keywords,
                   raw_score, outcome, overall_score, total_links_submitted,
                   top_links, domain_summary>>

\* Lines 145-177
Aggregate ==
    /\ pc = "aggregate"
    /\ overall_score' \in overall_score_of(df)
    /\ total_links_submitted' = Len(df)
    /\ top_links' \in top_links_of(df)
    /\ domain_summary' \in domain_summary_of(df)
    /\ outcome' = "ok"
    /\ pc' = "done"
    /\ UNCHANGED <<sliders, anchor_input, uploaded_file, weights, anchor_keywords,
                   df, raw_score>>

Next ==
    \/ Controls
    \/ Load
    \/ Score
    \/ Sort
    \/ Penalty
    \/ Aggregate

Spec == Init /\ [][Next]_vars

----------------------------------------------------------------------------
(* The weights alone: lines 97-112 for a wider range of slider positions *)

WideSliderVals == {0, 1, 10, 15, 30, 50, 100}

InitWeights ==
    /\ sliders \in [SliderNames -> WideSliderVals]
    /\ anchor_input \in AnchorInputs
    /\ uploaded_file = NoFile
    /\ pc = "controls"
    /\ weights = normalized_weights(DefaultSliders)
    /\ anchor_keywords = <<>>
    /\ df = <<>>
    /\ raw_score = <<>>
    /\ outcome = "running"
    /\ overall_score = 0
    /\ total_links_submitted = 0
    /\ top_links = <<>>
    /\ domain_summary = <<>>

NextWeights == Controls

SpecWeights == InitWeights /\ [][NextWeights]_vars

----------------------------------------------------------------------------
(* calculate_score alone: line 136 on one-row tables of many shapes *)

s_ai_g == <<"a", "i", " ", "g">>

ScoreTitles ==
    {StrCell(s_ai_g), StrCell(<<"x", " ", "a", "i">>), StrCell(<<"G">>), StrCell(s_x), NaNCell}

ScoreAnchors == {StrCell(<<"A", "i">>), StrCell(s_x), NaNCell}

ScoreLinkTypes == {"text", "image", "nav", "other", "Text"}

\* <<Nofollow, Sponsored, Lost Date>>
ScoreFlags ==
    { <<FALSE_CELL, FALSE_CELL, NaNCell>>,
      <<BoolCell(TRUE), FALSE_CELL, NaNCell>>,
      <<StrCell(<<" ", "t", "r", "u", "e", " ">>), FALSE_CELL, NaNCell>>,
      <<FALSE_CELL, StrCell(<<"T", "R", "U", "E">>), NaNCell>>,
      <<BoolCell(FALSE), BoolCell(FALSE), StrCell(<<"1">>)>>,
      <<FALSE_CELL, FALSE_CELL, StrCell(<<" ">>)>>,
      <<NaNCell, NaNCell, StrCell(<<>>)>> }

\* <<Domain rating, UR, Referring domains, Page traffic>>
ScoreMetrics ==
    { <<0, 0, 0, 0>>, <<100, 100, 5000, 1000000>>, <<1, 0, 2500, 250000>>,
      <<120, 35, 100, 0>> }

ScoreAnchorInputs ==
    { <<>>, s_ai, <<"a", "i", " ", "g", ",", " ", "x">>, <<",", "x">>,
      <<" ", "A", "I">>, <<"n", "a">> }

ScoreSliderSettings ==
    {DefaultSliders, Sliders(0, 0, 0, 0), Sliders(50, 50, 0, 0), Sliders(1, 0, 0, 100)}

ScoreRows ==
    {Row(t, Url(<<"a">>, <<"1">>), m[1], m[2], m[3], m[4], a, l, f[1], f[2], f[3]) :
        t \in ScoreTitles, m \in ScoreMetrics, a \in ScoreAnchors,
        l \in ScoreLinkTypes, f \in ScoreFlags}

InitScore ==
    /\ sliders \in ScoreSliderSettings
    /\ anchor_input \in ScoreAnchorInputs
    /\ uploaded_file \in {File(RequiredColumns, <<r>>) : r \in ScoreRows}
    /\ pc = "score"
    /\ weights = normalized_weights(sliders)
    /\ anchor_keywords = parse_keywords(anchor_input)
    /\ df = clean_data(uploaded_file)
    /\ raw_score = <<>>
    /\ outcome = "running"
    /\ overall_score = 0
    /\ total_links_submitted = 0
    /\ top_links = <<>>
    /\ domain_summary = <<>>

NextScore == Score

SpecScore == InitScore /\ [][NextScore]_vars

----------------------------------------------------------------------------
(* Claims *)

\* The Score column holds the values of calculate_score (after line 136)
Scored == pc \in {"sort", "penalty", "aggregate"} \/ (pc = "done" /\ outcome = "ok")

\* The Score column holds the penalized values (after line 142)
Penalized == pc = "aggregate" \/ (pc = "done" /\ outcome = "ok")

Finished == pc = "done" /\ outcome = "ok"

\* The value calculate_score returned for a row of the frame
RawOf(r) == raw_score[r.idx + 1]

true_lower == <<"t", "r", "u", "e">>

\* Nofollow is TRUE in any letter case, or Sponsored is, or Lost Date is non-empty
Flagged(r) ==
    \/ Lower(r.nofollow) = true_lower
    \/ Lower(r.sponsored) = true_lower
    \/ Len(r.lost_date) > 0

\* The positions of the frame that hold the rows of domain d
Members(d) == {k \in DOMAIN df : df[k].Domain = d}

DomainsOf(rows) == {rows[k].Domain : k \in DOMAIN rows}

\* C1: a record whose Nofollow or Sponsored is TRUE (any letter case) or whose
\* Lost Date is non-empty gets exactly 0 from calculate_score, and its score is
\* still exactly 0 after the duplicate-domain penalty pass.
C1_ExcludedScoreIsZero ==
    /\ Scored => \A k \in DOMAIN df : Flagged(df[k]) => RawOf(df[k]) = 0
    /\ Penalized => \A k \in DOMAIN df : Flagged(df[k]) => df[k].Score = 0

\* C1 witness: a finished run in which a record flagged by Sponsored alone, with
\* high metrics, ranks behind another record of its domain and has score 0
C1_Witness ==
    /\ Finished
    /\ \E k \in DOMAIN df :
          /\ Lower(df[k].sponsored) = true_lower
          /\ Lower(df[k].nofollow) # true_lower
          /\ df[k].lost_date = <<>>
          /\ df[k].dr = 80
          /\ \E j \in 1..(k - 1) : df[j].Domain = df[k].Domain
          /\ df[k].Score = 0

\* A score s2 is s1 multiplied by 0.5 and rounded to one decimal (in tenths)
IsHalfOf(s2, s1) == 2 * s2 = s1 \/ (s1 % 2 = 1 /\ (2 * s2 = s1 - 1 \/ 2 * s2 = s1 + 1))

\* C2: after the penalty pass, in every domain exactly one record, the first of
\* the domain in the score-descending order, whose raw score is the maximum raw
\* score of the domain, keeps its raw score; every other record of the domain
\* has its raw score multiplied by 0.5 and re-rounded to one decimal.
C2_PenaltyPerDomain ==
    Penalized =>
        \A d \in DomainsOf(df) :
            LET first == CHOOSE k \in Members(d) : \A j \in Members(d) : k <= j
            IN  /\ \A j \in Members(d) : RawOf(df[j]) <= RawOf(df[first])
                /\ df[first].Score = RawOf(df[first])
                /\ \A j \in Members(d) \ {first} : IsHalfOf(df[j].Score, RawOf(df[j]))

\* C2 witness: two records of one domain input with raw scores 6.0 then 8.0 end
\* with 8.0 (kept) and 3.0 (halved)
C2_Witness ==
    /\ Finished
    /\ raw_score = <<60, 80>>
    /\ df[1].Domain = df[2].Domain
    /\ df[1].idx = 1 /\ df[1].Score = 80
    /\ df[2].idx = 0 /\ df[2].Score = 30

\* C3: the score-descending sort is stable: of two records of one domain with
\* equal raw scores the one that comes first in the input is ranked earlier.
C3_SortIsStable ==
    pc = "penalty" =>
        \A j, k \in DOMAIN df :
            (j < k /\ df[j].Domain = df[k].Domain /\ df[j].Score = df[k].Score)
                => df[j].idx < df[k].idx

\* C4: a batch that lacks a required column ends in the 'Missing required
\* columns' rejection, with nothing scored and no results produced, and never
\* in an unhandled exception.
C4_MissingColumnRejected ==
    (pc = "done" /\ uploaded_file.present
        /\ ~(RequiredColumns \subseteq uploaded_file.columns))
        => (outcome = "missing_columns" /\ df = <<>> /\ raw_score = <<>>
            /\ top_links = <<>> /\ domain_summary = <<>>)

\* C10: the duplicate-domain penalty never raises a score: after the penalty
\* pass every record's score is at most its raw score, negative raw scores
\* included.
C10_PenaltyNeverRaises ==
    Penalized => \A k \in DOMAIN df : df[k].Score <= RawOf(df[k])

\* x rounded to one decimal is t tenths: t / 10 is within 0.05 of x
IsRounded(t, x) == 2 * Abs(10 * x[1] - t * x[2]) <= x[2]

\* The four metrics normalized with the fixed bounds and weighted
WeightedMetrics(r, w) ==
    RAdd(RAdd(RMul(Rat(10 * r.dr, 100), w.DR), RMul(Rat(10 * r.ur, 100), w.UR)),
         RAdd(RMul(Rat(10 * r.rd, 5000), w.RD), RMul(Rat(10 * r.traffic, 1000000), w.Traffic)))

LinkTypeTerm(r) ==
    CASE r.link_type = "text" -> Rat(2 * 5, 100)
      [] r.link_type = "image" -> Rat(-2 * 5, 100)
      [] r.link_type = "nav" -> Rat(-2 * 5, 100)
      [] OTHER -> Rat(0, 1)

\* The text of a cell, a blank cell read as the empty text
TextOf(cell) == IF cell.tag = "str" THEN cell.s ELSE <<>>

\* +1.0 / +0.5 / -1.0 by the first keyword against the title text
TitleBonusBy(text, kws) ==
    IF kws = <<>> THEN Rat(0, 1)
    ELSE LET kw == Lower(kws[1])
             words == SplitWs(kw, <<>>)
         IN  IF IsSubstr(kw, Lower(text)) THEN Rat(1, 1)
             ELSE IF \E k \in DOMAIN words : IsSubstr(words[k], Lower(text)) THEN Rat(1, 2)
             ELSE Rat(-1, 1)

KeywordHits(text, kws) ==
    Cardinality({k \in DOMAIN kws : IsSubstr(Lower(kws[k]), Lower(text))})

\* The claimed score before rounding, as the claim states it; the anchor is
\* read in its textual form str(Anchor)
ClaimedScore(r, kws, w) ==
    RAdd(RAdd(WeightedMetrics(r, w), Rat(KeywordHits(Str(r.anchor), kws), 10)),
         RAdd(LinkTypeTerm(r), TitleBonusBy(TextOf(r.title), kws)))

\* The same with the title bonus 0 for a title that is not a string
AmendedScore(r, kws, w) ==
    RAdd(RAdd(WeightedMetrics(r, w), Rat(KeywordHits(Str(r.anchor), kws), 10)),
         RAdd(LinkTypeTerm(r),
              IF r.title.tag = "str" THEN TitleBonusBy(r.title.s, kws) ELSE Rat(0, 1)))

\* C5 as stated: for every record that is not excluded calculate_score returns
\* round-to-one-decimal of weighted metrics + 0.10 x keyword hits in the anchor
\* + 0.05 x link-type adjustment + titleBonus, titleBonus being 0 without
\* keywords and otherwise +1.0, +0.5 or -1.0 by the first keyword; no clamping.
C5_ScoreFormulaAsStated ==
    pc = "sort" =>
        \A k \in DOMAIN df :
            ~Flagged(df[k]) =>
                IsRounded(RawOf(df[k]), ClaimedScore(df[k], anchor_keywords, weights))

\* C5 amended: the same, with titleBonus 0 also when the title is not a string
\* (a blank or numeric cell); the keyword hits are counted in str(Anchor).
C5_ScoreFormula ==
    pc = "sort" =>
        \A k \in DOMAIN df :
            ~Flagged(df[k]) =>
                IsRounded(RawOf(df[k]), AmendedScore(df[k], anchor_keywords, weights))

\* C5 witness: a record that is not excluded, with a blank title, link type nav
\* and zero metrics, scored under a keyword list: -0.1, no title bonus
C5_Witness ==
    /\ pc = "sort"
    /\ ~Flagged(df[1])
    /\ anchor_keywords = <<s_ai>>
    /\ df[1].title.tag = "nan"
    /\ df[1].link_type = "nav"
    /\ df[1].dr = 0 /\ df[1].traffic = 0
    /\ raw_score = <<-1>>

RECURSIVE SumFn(_, _)
SumFn(f, S) ==
    IF S = {} THEN 0
    ELSE LET x == CHOOSE x \in S : TRUE IN f[x] + SumFn(f, S \ {x})

\* The frame positions with a positive final score
PositivePositions == {k \in DOMAIN df : df[k].Score > 0}

InTop(k) == \E i \in DOMAIN top_links : top_links[i].idx = df[k].idx

\* C6: the Top-10 list holds only records with a post-penalty score > 0, has
\* min(10, number of such records) entries, is ordered by score descending with
\* no omitted record scoring higher than an included one, and its Position
\* values are 1..n in that order.
C6_TopLinks ==
    Finished =>
        LET n == Len(top_links)
            c == Cardinality(PositivePositions)
        IN  /\ n = IF c < 10 THEN c ELSE 10
            /\ \A i \in 1..n :
                  /\ top_links[i].Position = i
                  /\ top_links[i].Score > 0
                  /\ \E k \in PositivePositions :
                        df[k].idx = top_links[i].idx /\ df[k].Score = top_links[i].Score
            /\ \A i, j \in 1..n :
                  i < j => /\ top_links[i].idx # top_links[j].idx
                           /\ top_links[i].Score >= top_links[j].Score
            /\ \A k \in DOMAIN df :
                  ~InTop(k) => \A i \in 1..n : df[k].Score <= top_links[i].Score

\* C6 witness: more than ten records score above 0 and the list holds ten
C6_Witness ==
    /\ Finished
    /\ Cardinality(PositivePositions) > 10
    /\ Len(top_links) = 10
    /\ \E k \in PositivePositions : ~InTop(k)

\* The input records whose URL host is d (positions in the uploaded table)
RecordsOf(d) ==
    {k \in DOMAIN uploaded_file.rows : netloc(uploaded_file.rows[k].url) = d}

InputHosts == {netloc(uploaded_file.rows[k].url) : k \in DOMAIN uploaded_file.rows}

\* The post-penalty score of the input record at position k
FinalScore == [k \in DOMAIN uploaded_file.rows |->
                 df[CHOOSE j \in DOMAIN df : df[j].idx = k - 1].Score]

DomainTotal(d) == SumFn(FinalScore, RecordsOf(d))

Summarized == {domain_summary[i].Domain : i \in DOMAIN domain_summary}

\* C7: for every domain of the summary, link_count is the number of input
\* records whose URL host is that domain and domain_score the sum of their
\* post-penalty scores; at most 10 domains, by domain_score descending, no
\* omitted domain having a higher domain_score than an included one.
C7_DomainSummary ==
    Finished =>
        LET n == Len(domain_summary)
            c == Cardinality(InputHosts)
        IN  /\ n = IF c < 10 THEN c ELSE 10
            /\ \A i \in 1..n :
                  /\ domain_summary[i].Domain \in InputHosts
                  /\ domain_summary[i].link_count =
                        Cardinality(RecordsOf(domain_summary[i].Domain))
                  /\ domain_summary[i].domain_score = DomainTotal(domain_summary[i].Domain)
            /\ \A i, j \in 1..n :
                  i < j => /\ domain_summary[i].Domain # domain_summary[j].Domain
                           /\ domain_summary[i].domain_score >= domain_summary[j].domain_score
            /\ \A d \in InputHosts \ Summarized :
                  \A i \in 1..n : DomainTotal(d) <= domain_summary[i].domain_score

\* C7 witness: a summarized domain with three records, one excluded (score 0)
\* and one penalized, counted as three
C7_Witness ==
    /\ Finished
    /\ \E i \in DOMAIN domain_summary :
          /\ domain_summary[i].link_count = 3
          /\ \E k \in DOMAIN df : /\ df[k].Domain = domain_summary[i].Domain
                                  /\ Flagged(df[k])
          /\ \E k \in DOMAIN df : /\ df[k].Domain = domain_summary[i].Domain
                                  /\ df[k].Score # RawOf(df[k])

\* C8: the overall score is the sum of the post-penalty scores of all records
\* (hence the sum of the domain scores over all domains), and total links
\* submitted is the number of input records, none dropped or duplicated.
C8_OverallAndTotal ==
    Finished =>
        /\ overall_score = SumFn(FinalScore, DOMAIN uploaded_file.rows)
        /\ overall_score = SumFn([d \in InputHosts |-> DomainTotal(d)], InputHosts)
        /\ total_links_submitted = Len(uploaded_file.rows)
        /\ Len(df) = Len(uploaded_file.rows)
        /\ {df[k].idx : k \in DOMAIN df} = 0..(Len(uploaded_file.rows) - 1)

\* C8 witness: a batch of three with an excluded record, a penalized record and
\* a negative score, all counted
C8_Witness ==
    /\ Finished
    /\ total_links_submitted = 3
    /\ \E k \in DOMAIN df : Flagged(df[k])
    /\ \E k \in DOMAIN df : df[k].Score # RawOf(df[k])
    /\ \E k \in DOMAIN df : df[k].Score < 0

SliderTotal == sliders.DR + sliders.UR + sliders.RD + sliders.Traffic

\* C9: the weights passed on are non-negative and sum to 1: each is its slider
\* value divided by the sum of the four when that sum is not 0, and 0.25 when
\* all four are 0; no division by zero occurs.
C9_WeightsNormalized ==
    pc # "controls" =>
        /\ \A name \in SliderNames : weights[name][2] > 0 /\ weights[name][1] >= 0
        /\ RAdd(RAdd(weights.DR, weights.UR), RAdd(weights.RD, weights.Traffic)) = <<1, 1>>
        /\ SliderTotal # 0 =>
              \A name \in SliderNames :
                  weights[name][1] * SliderTotal = sliders[name] * weights[name][2]
        /\ SliderTotal = 0 => \A name \in SliderNames : weights[name] = <<1, 4>>

\* C9 witness: all four sliders at 0 and the weights 0.25 each
C9_Witness ==
    /\ pc = "done"
    /\ SliderTotal = 0
    /\ \A name \in SliderNames : weights[name] = <<1, 4>>

====
